---- MODULE Spec2Model ----
(***************************************************************************)
(* Model of django-autotranslate's translate_messages command:             *)
(*   - the text-protection codec (convert_text, _convert_text,             *)
(*     restore_text, fix_translation, HTMLTranslator), over strings        *)
(*     represented as sequences of one-character strings;                  *)
(*   - the catalog orchestration (need_translate,                          *)
(*     get_strings_to_translate, update_translations, translate_file,      *)
(*     handle).                                                            *)
(* Two specifications share the variables: Spec runs the command over the  *)
(* catalog files, SpecCodec drives the codec functions on drawn inputs.    *)
(***************************************************************************)
EXTENDS Integers, Sequences, FiniteSets, TLC

VARIABLES
    skip_translated,     \* Command.skip_translated (--untranslated)
    set_fuzzy,           \* Command.set_fuzzy (--set-fuzzy)
    file,                \* 1-based position of handle()'s walk over the .po files
    pc,                  \* position inside handle()/translate_file()
    disk,                \* catalog of the current file as persisted on disk
    po,                  \* the polib.POFile loaded in translate_file
    strings,             \* result of get_strings_to_translate(po)
    translated_strings,  \* result of tl.translate_strings(...)
    c_op,                \* codec run: which function was applied last
    c_msgid,             \* codec run: the source text
    c_protected,         \* codec run: convert_text(c_msgid)
    c_service,           \* codec run: what the translation service did to the text
    c_translation,       \* codec run: the string returned by the service
    c_result             \* codec run: result of restore_text / fix_translation

vars == <<skip_translated, set_fuzzy, file, pc, disk, po, strings,
          translated_strings, c_op, c_msgid, c_protected, c_service,
          c_translation, c_result>>

cmdVars == <<skip_translated, set_fuzzy, file, pc, disk, po, strings,
             translated_strings>>

codecVars == <<c_op, c_msgid, c_protected, c_service, c_translation, c_result>>

(***************************************************************************)
(* Strings                                                                 *)
(***************************************************************************)

\* the protective markers written by _convert_text
SPAN_OPEN ==
    <<"<","s","p","a","n"," ","t","r","a","n","s","l","a","t","e","=","\"","n","o","\"",">">>

SPAN_CLOSE == <<"<","/","s","p","a","n",">">>

BR_MARK ==
    <<"<","b","r"," ","t","r","a","n","s","l","a","t","e","=","\"","n","o","\"",">">>

NL == "\n"

\* the characters \w matches, within the modelled alphabet
Letters ==
    {"a", "b", "c", "d", "e", "f", "g", "h", "i", "j", "k", "l", "m",
     "n", "o", "p", "q", "r", "s", "t", "u", "v", "w", "x", "y", "z",
     "A", "B", "C", "D", "E", "F", "G", "H", "I", "J", "K", "L", "M",
     "N", "O", "P", "Q", "R", "S", "T", "U", "V", "W", "X", "Y", "Z"}

Digits == {"0", "1", "2", "3", "4", "5", "6", "7", "8", "9"}

\* the characters \w matches
WordChars == Letters \cup Digits \cup {"_"}

WhiteSpace == {" ", NL}

\* the characters of an end tag's name after its first letter
EndTagChars == Letters \cup Digits \cup {"-", ".", ":", "_"}

\* str.startswith(p, i - 1): p occurs in s at (1-based) position i
StartsWithAt(s, p, i) ==
    /\ i + Len(p) - 1 <= Len(s)
    /\ \A k \in 1..Len(p) : s[i + k - 1] = p[k]

\* the least of the positions hits of s, Len(s) + 1 if there is none
First(s, hits) ==
    IF hits = {} THEN Len(s) + 1
    ELSE CHOOSE j \in hits : \A k \in hits : j <= k

RECURSIVE ReplaceFrom(_, _, _, _)
\* the scan of str.replace: leftmost occurrences, none overlapping
ReplaceFrom(s, old, new, i) ==
    LET j == First(s, {k \in i..Len(s) : StartsWithAt(s, old, k)})
    IN  IF j > Len(s) THEN SubSeq(s, i, Len(s))
        ELSE SubSeq(s, i, j - 1) \o new \o ReplaceFrom(s, old, new, j + Len(old))

\* str.replace(old, new) for a non-empty old
Replace(s, old, new) == ReplaceFrom(s, old, new, 1)

\* str.startswith('\n') / str.endswith('\n')
startswith_nl(s) == Len(s) > 0 /\ s[1] = NL

endswith_nl(s) == Len(s) > 0 /\ s[Len(s)] = NL

\* length of the maximal run of \w characters of s starting at i
WordRun(s, i) ==
    First(s, {k \in i..Len(s) : s[k] \notin WordChars}) - i

\* length of the match of  %(\(\w+\))?([sd])  at position i of s, 0 if none
PlaceholderAt(s, i) ==
    IF i > Len(s) \/ s[i] # "%" THEN 0
    ELSE IF i + 1 <= Len(s) /\ s[i + 1] = "("
         THEN LET w == WordRun(s, i + 2)
                  j == i + 2 + w      \* where ')' must be
              IN  IF /\ w > 0
                     /\ j + 1 <= Len(s)
                     /\ s[j] = ")"
                     /\ s[j + 1] \in {"s", "d"}
                  THEN j + 2 - i
                  ELSE 0
         ELSE IF i + 1 <= Len(s) /\ s[i + 1] \in {"s", "d"} THEN 2 ELSE 0

RECURSIVE WrapPlaceholders(_, _)
\* re.sub(r'(%(\(\w+\))?([sd]))', r'<span translate="no">\1</span>', s)
WrapPlaceholders(s, i) ==
    LET j == First(s, {k \in i..Len(s) : PlaceholderAt(s, k) > 0})
        m == PlaceholderAt(s, j)
    IN  IF j > Len(s) THEN SubSeq(s, i, Len(s))
        ELSE SubSeq(s, i, j - 1)
             \o SPAN_OPEN \o SubSeq(s, j, j + m - 1) \o SPAN_CLOSE
             \o WrapPlaceholders(s, j + m)

\* _convert_text: plain text to the service friendly form
_convert_text(msgid) == Replace(WrapPlaceholders(msgid, 1), <<NL>>, BR_MARK)

RECURSIVE UnwrapPlaceholders(_, _)
\* re.sub(r'<span translate="no">(%(\(\w+\))?([sd]))</span>', r'\1', s)
UnwrapPlaceholders(s, i) ==
    LET Inner(j) == j + Len(SPAN_OPEN)
        j == First(s, {k \in i..Len(s) :
                          /\ StartsWithAt(s, SPAN_OPEN, k)
                          /\ PlaceholderAt(s, Inner(k)) > 0
                          /\ StartsWithAt(s, SPAN_CLOSE,
                                          Inner(k) + PlaceholderAt(s, Inner(k)))})
        m == PlaceholderAt(s, Inner(j))
    IN  IF j > Len(s) THEN SubSeq(s, i, Len(s))
        ELSE SubSeq(s, i, j - 1)
             \o SubSeq(s, Inner(j), Inner(j) + m - 1)
             \o UnwrapPlaceholders(s, Inner(j) + m + Len(SPAN_CLOSE))

\* restore_text that forgets the line-break markers
restore_text_keeps_br(translation) == UnwrapPlaceholders(translation, 1)

\* restore_text: strip the protective markers
restore_text(translation) ==
    Replace(UnwrapPlaceholders(translation, 1), BR_MARK, <<NL>>)

\* fix_translation: newline fix-ups, then restore_text
fix_translation(msgid, translation) ==
    LET t1 == IF startswith_nl(msgid) /\ ~startswith_nl(translation)
              THEN <<NL>> \o translation ELSE translation
        t2 == IF endswith_nl(msgid) /\ ~endswith_nl(t1)
              THEN t1 \o <<NL>> ELSE t1
    IN  restore_text(t2)

(***************************************************************************)
(* HTMLTranslator: the parser's token stream and the handlers              *)
(***************************************************************************)

Token(kind, tag, attrs, data) ==
    [kind |-> kind, tag |-> tag, attrs |-> attrs, data |-> data]

\* an attribute as parse_starttag reports it; valued = FALSE is (name, None)
Attr(name, valued, value) == [name |-> name, valued |-> valued, value |-> value]

\* first position >= k of s holding a character of stops, Len(s) + 1 if none
ScanUntil(s, k, stops) == First(s, {j \in k..Len(s) : s[j] \in stops})

\* first position >= k of s holding a character outside skip
ScanWhile(s, k, skip) == First(s, {j \in k..Len(s) : s[j] \notin skip})

RECURSIVE parse_attrs(_, _)
\* the attrfind_tolerant loop of parse_starttag, from position k0; end is the
\* position after the tag's '>', 0 when the tag is not terminated
parse_attrs(s, k0) ==
    LET k == ScanWhile(s, k0, WhiteSpace)
    IN  IF k > Len(s) THEN [attrs |-> <<>>, end |-> 0, startend |-> FALSE]
        ELSE IF s[k] = ">" THEN [attrs |-> <<>>, end |-> k + 1, startend |-> FALSE]
        ELSE IF s[k] = "/"
             THEN IF k + 1 <= Len(s) /\ s[k + 1] = ">"
                  THEN [attrs |-> <<>>, end |-> k + 2, startend |-> TRUE]
                  ELSE parse_attrs(s, k + 1)
        ELSE LET e  == ScanUntil(s, k + 1, WhiteSpace \cup {"/", "=", ">"})
                 name == SubSeq(s, k, e - 1)
                 e2 == ScanWhile(s, e, WhiteSpace)
                 hasEq == e2 <= Len(s) /\ s[e2] = "="
                 v  == ScanWhile(s, ScanWhile(s, e2, {"="}), WhiteSpace)
                 quoted == v <= Len(s) /\ s[v] \in {"\"", "'"}
                 c  == IF quoted THEN ScanUntil(s, v + 1, {s[v]})
                       ELSE ScanUntil(s, v, WhiteSpace \cup {">"})
                 value == IF ~hasEq THEN <<>>
                          ELSE IF quoted THEN SubSeq(s, v + 1, c - 1)
                          ELSE SubSeq(s, v, c - 1)
                 next == IF ~hasEq THEN e ELSE IF quoted THEN c + 1 ELSE c
                 rest == parse_attrs(s, next)
             IN  IF hasEq /\ quoted /\ c > Len(s)
                 THEN \* a quote that never closes: the tag is not a tag
                      [attrs |-> <<>>, end |-> 0, startend |-> FALSE]
                 ELSE [rest EXCEPT !.attrs = <<Attr(name, hasEq, value)>> \o @]

\* goahead's fallback at close() for a construct that never terminates:
\* the end of the text handed to handle_data
unterminated_end(s, i) ==
    LET gt == ScanUntil(s, i + 1, {">"})
        lt == ScanUntil(s, i + 1, {"<"})
    IN  IF gt <= Len(s) THEN gt + 1
        ELSE IF lt <= Len(s) THEN lt
        ELSE i + 1

RECURSIVE goahead(_, _)
\* HTMLParser.feed + close: the tokens the handlers are called with, in order.
\* Texts are over an alphabet without '&' (no character or entity references,
\* which the parser would split off as tokens of their own) and with names in
\* lower case (the parser lower-cases tag and attribute names).
goahead(s, i) ==
    IF i > Len(s) THEN <<>>
    ELSE LET j == ScanUntil(s, i, {"<"})
         IN  IF i < j
             THEN <<Token("data", <<>>, <<>>, SubSeq(s, i, j - 1))>> \o goahead(s, j)
             ELSE IF i + 1 <= Len(s) /\ s[i + 1] \in Letters
             THEN \* parse_starttag
                  LET e == ScanUntil(s, i + 1, WhiteSpace \cup {"/", ">"})
                      tag == SubSeq(s, i + 1, e - 1)
                      a == parse_attrs(s, e)
                  IN  IF a.end = 0
                      THEN LET k == unterminated_end(s, i)
                           IN  <<Token("data", <<>>, <<>>, SubSeq(s, i, k - 1))>>
                               \o goahead(s, k)
                      ELSE <<Token("starttag", tag, a.attrs, <<>>)>>
                           \o (IF a.startend
                               THEN <<Token("endtag", tag, <<>>, <<>>)>> ELSE <<>>)
                           \o goahead(s, a.end)
             ELSE IF i + 1 <= Len(s) /\ s[i + 1] = "/"
             THEN \* parse_endtag
                  LET gt == ScanUntil(s, i + 1, {">"})
                      e == ScanUntil(s, i + 2, WhiteSpace \cup {"/", ">"})
                      \* endtagfind: </\s*([a-zA-Z][-.a-zA-Z0-9:_]*)\s*>
                      nm == ScanWhile(s, i + 2, WhiteSpace)
                      ne == ScanWhile(s, nm, EndTagChars)
                  IN  IF gt > Len(s)
                      THEN LET k == unterminated_end(s, i)
                           IN  <<Token("data", <<>>, <<>>, SubSeq(s, i, k - 1))>>
                               \o goahead(s, k)
                      ELSE IF /\ s[nm] \in Letters
                              /\ ScanWhile(s, ne, WhiteSpace) = gt
                      THEN <<Token("endtag", SubSeq(s, nm, ne - 1), <<>>, <<>>)>>
                           \o goahead(s, gt + 1)
                      ELSE IF i + 2 <= Len(s) /\ s[i + 2] \in Letters
                      THEN <<Token("endtag", SubSeq(s, i + 2, e - 1), <<>>, <<>>)>>
                           \o goahead(s, gt + 1)
                      ELSE IF gt = i + 2
                      THEN goahead(s, gt + 1)       \* '</>' is dropped
                      ELSE <<Token("comment", <<>>, <<>>, SubSeq(s, i + 2, gt - 1))>>
                           \o goahead(s, gt + 1)    \* parse_bogus_comment
             ELSE <<Token("data", <<>>, <<>>, <<"<">>)>> \o goahead(s, i + 1)

\* format(None) of Python: what an f-string writes for a valueless attribute
NoneText == <<"N", "o", "n", "e">>

RECURSIVE format_attrs(_)
\* the loop of handle_starttag: f' {attr_name}="{attr_value}"' for each attribute
format_attrs(attrs) ==
    IF attrs = <<>> THEN <<>>
    ELSE LET a == Head(attrs)
         IN  <<" ">> \o a.name \o <<"=", "\"">>
             \o (IF a.valued THEN a.value ELSE NoneText)
             \o <<"\"">> \o format_attrs(Tail(attrs))

handle_starttag(tag, attrs) == <<"<">> \o tag \o format_attrs(attrs) \o <<">">>

handle_endtag(tag) == <<"<", "/">> \o tag \o <<">">>

handle_data(data) == _convert_text(data)

handle_comment(data) == <<"<", "!", "-", "-">> \o data \o <<"-", "-", ">">>

RECURSIVE convert(_)
\* HTMLTranslator.convert: the concatenation of what the handlers append
convert(tokens) ==
    IF tokens = <<>> THEN <<>>
    ELSE LET t == Head(tokens)
         IN  (CASE t.kind = "starttag" -> handle_starttag(t.tag, t.attrs)
                [] t.kind = "endtag"   -> handle_endtag(t.tag)
                [] t.kind = "comment"  -> handle_comment(t.data)
                [] OTHER               -> handle_data(t.data))
             \o convert(Tail(tokens))

\* convert_text: html text to the service friendly form
convert_text(msgid) == convert(goahead(msgid, 1))

(***************************************************************************)
(* Catalog entries (polib.POEntry) and the command's per-entry logic       *)
(***************************************************************************)

Entry(msgid, msgid_plural, msgstr, msgstr_plural, flags, obsolete) ==
    [msgid |-> msgid, msgid_plural |-> msgid_plural, msgstr |-> msgstr,
     msgstr_plural |-> msgstr_plural, flags |-> flags, obsolete |-> obsolete]

\* 'fuzzy' in entry.flags
InFlags(entry) == \E k \in 1..Len(entry.flags) : entry.flags[k] = "fuzzy"

\* entry.fuzzy
fuzzy(entry) == InFlags(entry)

\* entry.translated()
translated(entry) ==
    IF entry.obsolete \/ fuzzy(entry) THEN FALSE
    ELSE IF entry.msgstr # <<>> THEN TRUE
    ELSE IF DOMAIN entry.msgstr_plural # {}
         THEN \A k \in DOMAIN entry.msgstr_plural : entry.msgstr_plural[k] # <<>>
         ELSE FALSE

\* need_translate that forgets the obsolete entries
need_translate_with_obsolete(entry) ==
    ~(skip_translated /\ (translated(entry) \/ fuzzy(entry)))

\* Command.need_translate
need_translate(entry) ==
    ~entry.obsolete /\ ~(skip_translated /\ (translated(entry) \/ fuzzy(entry)))

\* the truth value of entry.msgid_plural
has_plural(entry) == entry.msgid_plural # <<>>

RECURSIVE get_strings_to_translate(_)
\* Command.get_strings_to_translate
get_strings_to_translate(entries) ==
    IF entries = <<>> THEN <<>>
    ELSE LET entry == Head(entries)
         IN  (IF ~need_translate(entry) THEN <<>>
              ELSE <<convert_text(entry.msgid)>>
                   \o (IF has_plural(entry)
                       THEN <<convert_text(entry.msgid_plural)>> ELSE <<>>))
             \o get_strings_to_translate(Tail(entries))

\* d[k] = v on a dict
SetItem(d, k, v) == [x \in DOMAIN d \cup {k} |-> IF x = k THEN v ELSE d[x]]

\* the fuzzy marking that ends the loop body of update_translations
mark_fuzzy(entry) ==
    IF set_fuzzy /\ ~InFlags(entry)
    THEN [entry EXCEPT !.flags = Append(@, "fuzzy")]
    ELSE entry

\* update_entry that takes one translation for both forms of a plural entry
update_entry_one_next(entry, translations, c) ==
    IF c > Len(translations)
    THEN [entry |-> entry, ok |-> FALSE, cursor |-> c]
    ELSE IF has_plural(entry)
    THEN LET t == fix_translation(entry.msgid, translations[c])
             first == [entry EXCEPT !.msgstr_plural = SetItem(@, 0, t)]
             rest == [first EXCEPT !.msgstr_plural =
                         [k \in DOMAIN @ |-> IF k # 0 THEN t ELSE @[k]]]
         IN  [entry |-> mark_fuzzy(rest), ok |-> TRUE, cursor |-> c + 1]
    ELSE [entry |-> mark_fuzzy([entry EXCEPT !.msgstr =
                                   fix_translation(entry.msgid, translations[c])]),
          ok |-> TRUE, cursor |-> c + 1]

\* update_entry whose loop over the plural forms does not spare index 0
update_entry_all_forms(entry, translations, c) ==
    IF c > Len(translations)
    THEN [entry |-> entry, ok |-> FALSE, cursor |-> c]
    ELSE IF has_plural(entry)
    THEN LET first == [entry EXCEPT !.msgstr_plural =
                          SetItem(@, 0, fix_translation(entry.msgid, translations[c]))]
         IN  IF c + 1 > Len(translations)
             THEN [entry |-> first, ok |-> FALSE, cursor |-> c + 1]
             ELSE LET t == fix_translation(entry.msgid_plural, translations[c + 1])
                      rest == [first EXCEPT !.msgstr_plural =
                                  [k \in DOMAIN @ |-> t]]
                  IN  [entry |-> mark_fuzzy(rest), ok |-> TRUE, cursor |-> c + 2]
    ELSE [entry |-> mark_fuzzy([entry EXCEPT !.msgstr =
                                   fix_translation(entry.msgid, translations[c])]),
          ok |-> TRUE, cursor |-> c + 1]

\* One pass of the loop body of update_translations for an entry that needs
\* translation, with the iterator at position c of translations: the entry as
\* the pass leaves it, whether next() raised StopIteration, and the iterator's
\* position afterwards.
update_entry(entry, translations, c) ==
    IF has_plural(entry)
    THEN IF c > Len(translations)
         THEN [entry |-> entry, ok |-> FALSE, cursor |-> c]
         ELSE LET first == [entry EXCEPT !.msgstr_plural =
                               SetItem(@, 0, fix_translation(entry.msgid, translations[c]))]
              IN  IF c + 1 > Len(translations)
                  THEN [entry |-> first, ok |-> FALSE, cursor |-> c + 1]
                  ELSE LET t == fix_translation(entry.msgid_plural, translations[c + 1])
                           rest == [first EXCEPT !.msgstr_plural =
                                       [k \in DOMAIN @ |-> IF k # 0 THEN t ELSE @[k]]]
                       IN  [entry |-> mark_fuzzy(rest), ok |-> TRUE, cursor |-> c + 2]
    ELSE IF c > Len(translations)
         THEN [entry |-> entry, ok |-> FALSE, cursor |-> c]
         ELSE [entry |-> mark_fuzzy([entry EXCEPT !.msgstr =
                                        fix_translation(entry.msgid, translations[c])]),
               ok |-> TRUE, cursor |-> c + 1]

RECURSIVE update_from(_, _, _, _)
\* the loop of update_translations from entry i on, the iterator at position c
update_from(entries, translations, i, c) ==
    IF i > Len(entries) THEN [entries |-> entries, ok |-> TRUE]
    ELSE IF ~need_translate(entries[i])
         THEN update_from(entries, translations, i + 1, c)
         ELSE LET r == update_entry(entries[i], translations, c)
                  upd == [entries EXCEPT ![i] = r.entry]
              IN  IF r.ok THEN update_from(upd, translations, i + 1, r.cursor)
                  ELSE [entries |-> upd, ok |-> FALSE]

\* Command.update_translations: the entries as it leaves them, and whether it
\* returned (ok) or raised StopIteration
update_translations(entries, translations) == update_from(entries, translations, 1, 1)

(***************************************************************************)
(* Bounds and the inputs drawn within them                                 *)
(***************************************************************************)

MaxFiles == 2        \* .po files the walk of handle() meets

MaxEntries == 2      \* entries of a catalog

MaxResp == 4         \* longest answer of the translation service

MaxForms == 2        \* plural forms of an entry

MaxPieces == 3       \* pieces a source text of the codec run is made of

Str_nl_a == <<NL, "a">>

Str_c == <<"c">>

Str_cs == <<"c", "s">>

Str_t == <<"t">>

\* the index sets of msgstr_plural: 0..n-1, and one that lacks index 0
PluralIndexSets == {0..(n - 1) : n \in 0..MaxForms} \cup {1..(MaxForms - 1)}

PluralMaps == {[k \in S |-> v] : S \in PluralIndexSets, v \in {<<>>, Str_t}}

EntryPool ==
    {Entry(Str_nl_a, <<>>, m, <<>>, f, FALSE) :
        m \in {<<>>, Str_t}, f \in {<<>>, <<"fuzzy">>}}
    \cup {Entry(Str_c, Str_cs, <<>>, pm, <<>>, FALSE) : pm \in PluralMaps}
    \cup {Entry(Str_nl_a, <<>>, Str_t, <<>>, <<>>, TRUE)}

Catalogs == UNION {[1..n -> EntryPool] : n \in 0..MaxEntries}

\* the p-th string of an answer: p times "x", so that positions differ
Reply(p) == [k \in 1..p |-> "x"]

\* the answers of tl.translate_strings: any length up to MaxResp
Responses == {[p \in 1..n |-> Reply(p)] : n \in 0..MaxResp}

(***************************************************************************)
(* The command: handle() and translate_file()                              *)
(***************************************************************************)

Init ==
    /\ skip_translated \in BOOLEAN
    /\ set_fuzzy \in BOOLEAN
    /\ file = 1
    /\ pc = "start"
    /\ disk = <<>>
    /\ po = <<>>
    /\ strings = <<>>
    /\ translated_strings = <<>>
    /\ c_op = "off"
    /\ c_msgid = <<>>
    /\ c_protected = <<>>
    /\ c_service = "none"
    /\ c_translation = <<>>
    /\ c_result = <<>>

\* handle: the two assertions on the settings
CheckSettings ==
    /\ pc = "start"
    /\ \E use_i18n \in BOOLEAN, locale_paths \in BOOLEAN :
          pc' = IF use_i18n /\ locale_paths THEN "walk" ELSE "error"
    /\ UNCHANGED <<skip_translated, set_fuzzy, file, disk, po, strings,
                   translated_strings>>
    /\ UNCHANGED codecVars

\* handle: the walk meets a file that is skipped (not a .po file, or of a
\* locale that was not asked for)
SkipFile ==
    /\ pc = "walk"
    /\ file <= MaxFiles
    /\ file' = file + 1
    /\ UNCHANGED <<skip_translated, set_fuzzy, pc, disk, po, strings, translated_strings>>
    /\ UNCHANGED codecVars

\* handle: the walk meets a .po file to translate; translate_file is called
EnterFile ==
    /\ pc = "walk"
    /\ file <= MaxFiles
    /\ \E c \in Catalogs : disk' = c
    /\ pc' = "load"
    /\ UNCHANGED <<skip_translated, set_fuzzy, file, po, strings, translated_strings>>
    /\ UNCHANGED codecVars

\* handle: the walk is over
Finish ==
    /\ pc = "walk"
    /\ file > MaxFiles
    /\ pc' = "done"
    /\ UNCHANGED <<skip_translated, set_fuzzy, file, disk, po, strings,
                   translated_strings>>
    /\ UNCHANGED codecVars

\* translate_file: po = polib.pofile(...)
Load ==
    /\ pc = "load"
    /\ po' = disk
    /\ pc' = "extract"
    /\ UNCHANGED <<skip_translated, set_fuzzy, file, disk, strings, translated_strings>>
    /\ UNCHANGED codecVars

\* translate_file: strings = self.get_strings_to_translate(po)
Extract ==
    /\ pc = "extract"
    /\ strings' = get_strings_to_translate(po)
    /\ pc' = "translate"
    /\ UNCHANGED <<skip_translated, set_fuzzy, file, disk, po, translated_strings>>
    /\ UNCHANGED codecVars

\* translate_file: translated_strings = tl.translate_strings(...)
Translate ==
    /\ pc = "translate"
    /\ \E r \in Responses : translated_strings' = r
    /\ pc' = "update"
    /\ UNCHANGED <<skip_translated, set_fuzzy, file, disk, po, strings>>
    /\ UNCHANGED codecVars

\* translate_file: tl.translate_strings(...) raises
TranslateFails ==
    /\ pc = "translate"
    /\ pc' = "error"
    /\ UNCHANGED <<skip_translated, set_fuzzy, file, disk, po, strings,
                   translated_strings>>
    /\ UNCHANGED codecVars

\* a translate_file that swallows the exception of update_translations
after_update_swallowed(ok) == "save"

\* what the call of update_translations in translate_file leads to
after_update(ok) == IF ok THEN "save" ELSE "error"

\* translate_file: self.update_translations(po, translated_strings)
UpdateTranslations ==
    /\ pc = "update"
    /\ LET r == update_translations(po, translated_strings)
       IN  /\ po' = r.entries
           /\ pc' = after_update(r.ok)
    /\ UNCHANGED <<skip_translated, set_fuzzy, file, disk, strings, translated_strings>>
    /\ UNCHANGED codecVars

\* translate_file: po.save()
Save ==
    /\ pc = "save"
    /\ disk' = po
    /\ pc' = "saved"
    /\ UNCHANGED <<skip_translated, set_fuzzy, file, po, strings, translated_strings>>
    /\ UNCHANGED codecVars

\* translate_file returns, its locals are gone, and the walk of handle() goes on
NextFile ==
    /\ pc = "saved"
    /\ file' = file + 1
    /\ pc' = "walk"
    /\ disk' = <<>>
    /\ po' = <<>>
    /\ strings' = <<>>
    /\ translated_strings' = <<>>
    /\ UNCHANGED <<skip_translated, set_fuzzy>>
    /\ UNCHANGED codecVars

Next ==
    \/ CheckSettings
    \/ SkipFile
    \/ EnterFile
    \/ Finish
    \/ Load
    \/ Extract
    \/ Translate
    \/ TranslateFails
    \/ UpdateTranslations
    \/ Save
    \/ NextFile

Spec == Init /\ [][Next]_vars

(***************************************************************************)
(* The codec on its own: a source text is protected, goes through the      *)
(* translation service, and is decoded                                     *)
(***************************************************************************)

\* the pieces source texts are made of: text, well-formed and malformed
\* placeholders, a newline, and tags whose attributes have a quoted value,
\* an empty value and no value
SrcPieces ==
    { <<"a">>,
      <<"%", "s">>,
      <<"%", "(", "n", ")", "d">>,
      <<"%", " ", "(", "n", ")", "s">>,
      <<NL>>,
      <<"<", "a", " ", "h", "r", "e", "f", "=", "'", "%", "s", "'", ">">>,
      <<"<", "b", " ", "i", "d", "=", "\"", "\"", ">">>,
      <<"<", "i", "n", "p", "u", "t", " ", "d", "i", "s", "a", "b", "l", "e", "d", ">">>,
      <<"<", "/", "a", ">">> }

RECURSIVE Concat(_)
Concat(ps) == IF ps = <<>> THEN <<>> ELSE Head(ps) \o Concat(Tail(ps))

SrcTexts == {Concat(ps) : ps \in UNION {[1..n -> SrcPieces] : n \in 0..MaxPieces}}

RECURSIVE StripLeading(_, _)
StripLeading(s, m) ==
    IF StartsWithAt(s, m, 1)
    THEN StripLeading(SubSeq(s, Len(m) + 1, Len(s)), m) ELSE s

RECURSIVE StripTrailing(_, _)
StripTrailing(s, m) ==
    IF Len(s) >= Len(m) /\ StartsWithAt(s, m, Len(s) - Len(m) + 1)
    THEN StripTrailing(SubSeq(s, 1, Len(s) - Len(m)), m) ELSE s

\* what the translation service does to the formatting of a protected string
Services == {"same", "strip", "pad_left", "pad_right", "pad_both"}

\* the string the service returns for a protected string:
\*   same      - the markers come back as they were sent
\*   strip     - leading and trailing line breaks are dropped
\*   pad_*     - whitespace is inserted inside the placeholder markers
Service(m, s) ==
    CASE m = "same"      -> s
      [] m = "strip"     -> StripTrailing(StripLeading(s, BR_MARK), BR_MARK)
      [] m = "pad_left"  -> Replace(s, SPAN_OPEN, SPAN_OPEN \o <<" ">>)
      [] m = "pad_right" -> Replace(s, SPAN_CLOSE, <<" ">> \o SPAN_CLOSE)
      [] m = "pad_both"  -> Replace(Replace(s, SPAN_OPEN, SPAN_OPEN \o <<" ">>),
                                    SPAN_CLOSE, <<" ">> \o SPAN_CLOSE)

InitCodec ==
    /\ skip_translated = FALSE
    /\ set_fuzzy = FALSE
    /\ file = 1
    /\ pc = "off"
    /\ disk = <<>>
    /\ po = <<>>
    /\ strings = <<>>
    /\ translated_strings = <<>>
    /\ c_op = "input"
    /\ c_msgid \in SrcTexts
    /\ c_protected = <<>>
    /\ c_service = "none"
    /\ c_translation = <<>>
    /\ c_result = <<>>

\* convert_text(msgid), as get_strings_to_translate calls it
ConvertText ==
    /\ c_op = "input"
    /\ c_protected' = convert_text(c_msgid)
    /\ c_op' = "protected"
    /\ UNCHANGED <<c_msgid, c_service, c_translation, c_result>>
    /\ UNCHANGED cmdVars

\* the translation service answers for the protected string
ServiceAnswers ==
    /\ c_op = "protected"
    /\ \E m \in Services :
          /\ c_service' = m
          /\ c_translation' = Service(m, c_protected)
    /\ c_op' = "translated"
    /\ UNCHANGED <<c_msgid, c_protected, c_result>>
    /\ UNCHANGED cmdVars

\* restore_text(translation)
RestoreText ==
    /\ c_op = "translated"
    /\ c_result' = restore_text(c_translation)
    /\ c_op' = "restored"
    /\ UNCHANGED <<c_msgid, c_protected, c_service, c_translation>>
    /\ UNCHANGED cmdVars

\* fix_translation(msgid, translation), as update_translations calls it
FixTranslation ==
    /\ c_op = "translated"
    /\ c_result' = fix_translation(c_msgid, c_translation)
    /\ c_op' = "fixed"
    /\ UNCHANGED <<c_msgid, c_protected, c_service, c_translation>>
    /\ UNCHANGED cmdVars

NextCodec ==
    \/ ConvertText
    \/ ServiceAnswers
    \/ RestoreText
    \/ FixTranslation

SpecCodec == InitCodec /\ [][NextCodec]_vars

(***************************************************************************)
(* Properties of the command (checked under Spec)                          *)
(***************************************************************************)

\* number of entries of a catalog that satisfy Sel, plural ones counted twice:
\* the number of strings an extraction that takes exactly those entries emits
Emits(entries, Sel(_)) ==
    Cardinality({i \in 1..Len(entries) : Sel(entries[i])})
    + Cardinality({i \in 1..Len(entries) : Sel(entries[i]) /\ has_plural(entries[i])})

\* position in the extracted strings of the msgid of entry i of the loaded file
EmitPos(i) == Len(get_strings_to_translate(SubSeq(disk, 1, i - 1))) + 1

\* C1: whenever the number of translated strings differs from the number of
\* extracted strings, update_translations does not complete: the write-back
\* never reaches the save with a count mismatch.
C1_MismatchIsFatal ==
    pc = "save" => Len(translated_strings) = Len(strings)

\* C2: with an answer as long as the extraction, the entry whose msgid was
\* emitted at position p has received answer p (in msgstr, or in
\* msgstr_plural[0] when plural), and the other forms of a plural entry have
\* received answer p + 1.
C2_Aligned ==
    (pc = "save" /\ Len(translated_strings) = Len(strings)) =>
        \A i \in 1..Len(disk) :
            need_translate(disk[i]) =>
                LET p == EmitPos(i)
                    e == disk[i]
                IN  /\ strings[p] = convert_text(e.msgid)
                    /\ IF has_plural(e)
                       THEN /\ strings[p + 1] = convert_text(e.msgid_plural)
                            /\ po[i].msgstr_plural[0] =
                                  fix_translation(e.msgid, translated_strings[p])
                            /\ \A k \in DOMAIN po[i].msgstr_plural \ {0} :
                                  po[i].msgstr_plural[k] =
                                     fix_translation(e.msgid_plural,
                                                     translated_strings[p + 1])
                       ELSE po[i].msgstr =
                               fix_translation(e.msgid, translated_strings[p])

C2_Witness ==
    /\ pc = "save"
    /\ Len(translated_strings) = Len(strings)
    /\ Len(disk) = 2
    /\ need_translate(disk[1]) /\ has_plural(disk[1])
    /\ DOMAIN disk[1].msgstr_plural = {0, 1}
    /\ need_translate(disk[2]) /\ ~has_plural(disk[2])
    /\ po[2].msgstr = fix_translation(disk[2].msgid, translated_strings[3])
    /\ po[1].msgstr_plural[1] # po[1].msgstr_plural[0]

\* C3 as claimed: the write-back of a plural entry leaves the index set of
\* msgstr_plural exactly as it was, whatever it was, puts the singular
\* translation at index 0 and the plural translation at every other index,
\* and leaves msgstr alone.
C3_IndexSetUnchanged ==
    pc = "save" =>
        \A i \in 1..Len(disk) :
            (need_translate(disk[i]) /\ has_plural(disk[i])) =>
                /\ DOMAIN po[i].msgstr_plural = DOMAIN disk[i].msgstr_plural
                /\ po[i].msgstr = disk[i].msgstr

\* C3 as amended: the write-back of a plural entry keeps every index the entry
\* had and adds index 0 when the entry lacked it (no other index is added or
\* removed); index 0 holds the singular translation, all the other indices
\* hold one and the same plural translation, and msgstr is unchanged.
C3_IndexSetPlusZero ==
    pc = "save" =>
        \A i \in 1..Len(disk) :
            (need_translate(disk[i]) /\ has_plural(disk[i])) =>
                /\ DOMAIN po[i].msgstr_plural = DOMAIN disk[i].msgstr_plural \cup {0}
                /\ po[i].msgstr = disk[i].msgstr
                /\ \E p \in 1..Len(translated_strings) - 1 :
                      /\ po[i].msgstr_plural[0] =
                            fix_translation(disk[i].msgid, translated_strings[p])
                      /\ \A k \in DOMAIN disk[i].msgstr_plural \ {0} :
                            po[i].msgstr_plural[k] =
                               fix_translation(disk[i].msgid_plural,
                                               translated_strings[p + 1])

C3_Witness ==
    /\ pc = "save"
    /\ \E i \in 1..Len(disk) :
          /\ need_translate(disk[i]) /\ has_plural(disk[i])
          /\ DOMAIN disk[i].msgstr_plural = {1}
          /\ DOMAIN po[i].msgstr_plural = {0, 1}
          /\ po[i].msgstr_plural[1] # disk[i].msgstr_plural[1]

\* the skip state as the specification words it
SkipState(entry) ==
    entry.obsolete \/ (skip_translated /\ (translated(entry) \/ fuzzy(entry)))

NeedsState(entry) == ~SkipState(entry)

\* position of entry i's first string when only the entries that are not in
\* the skip state take positions
SkipFreePos(i) == Emits(SubSeq(disk, 1, i - 1), NeedsState) + 1

EmptyTranslation(entry) ==
    /\ entry.msgstr = <<>>
    /\ \A k \in DOMAIN entry.msgstr_plural : entry.msgstr_plural[k] = <<>>

\* what --untranslated is documented to translate: the fuzzy and the empty
FuzzyOrEmpty(entry) ==
    ~entry.obsolete /\ (fuzzy(entry) \/ EmptyTranslation(entry))

\* C5: under --untranslated the entries translated are exactly the
\* non-obsolete entries that are fuzzy or have an empty translation.
C5_FuzzyAndEmptyOnly ==
    (skip_translated /\ pc \in {"translate", "update", "save"}) =>
        /\ \A i \in 1..Len(disk) : need_translate(disk[i]) <=> FuzzyOrEmpty(disk[i])
        /\ Len(strings) = Emits(disk, FuzzyOrEmpty)

\* C9: the steps of a file follow the order load, extract, translate, write
\* back, save; the file on disk changes only by the save, which writes the
\* result of the complete and successful write-back of the loaded catalog with
\* the one answer; after a failure nothing more happens; and the walk moves to
\* the next file only after the save (or by skipping a file it never loaded).
C9_StepOrder ==
    [][ /\ (pc' = "load" /\ pc # "load") => (pc = "walk" /\ file' = file)
        /\ (pc' = "extract" /\ pc # "extract") => (pc = "load" /\ po' = disk)
        /\ (pc' = "translate" /\ pc # "translate") =>
              (pc = "extract" /\ strings' = get_strings_to_translate(po))
        /\ (pc' = "update" /\ pc # "update") => pc = "translate"
        /\ (pc' = "save" /\ pc # "save") =>
              /\ pc = "update"
              /\ update_translations(disk, translated_strings).ok
              /\ po' = update_translations(disk, translated_strings).entries
        /\ (pc' = "saved" /\ pc # "saved") => (pc = "save" /\ disk' = po)
        /\ (disk' # disk /\ pc \notin {"walk", "saved"}) => pc = "save"
        /\ file' # file => (file' = file + 1 /\ pc \in {"saved", "walk"})
        /\ pc = "error" => (pc' = "error" /\ disk' = disk)
      ]_vars

C9_Witness ==
    /\ pc = "error"
    /\ file = 2
    /\ po # disk
    /\ Len(translated_strings) < Len(strings)

(***************************************************************************)
(* Properties of the codec (checked under SpecCodec)                       *)
(***************************************************************************)

\* s holds none of the characters that open or close markup: no tag and no
\* character or entity reference can start in it
IsPlain(s) == \A i \in 1..Len(s) : s[i] \notin {"<", ">", "&"}

Occurs(s, m) == \E i \in 1..Len(s) : StartsWithAt(s, m, i)

\* C6: a plain string of text, placeholders and newlines, without markup,
\* comes back unchanged from restore_text(convert_text(s)).
C6_RoundTrip ==
    (c_op = "restored" /\ c_service = "same" /\ IsPlain(c_msgid)) =>
        c_result = c_msgid

C6_Witness ==
    /\ c_op = "restored"
    /\ c_service = "same"
    /\ IsPlain(c_msgid)
    /\ \E i \in 1..Len(c_msgid) : PlaceholderAt(c_msgid, i) > 2
    /\ \E i \in 1..Len(c_msgid) : c_msgid[i] = NL
    /\ Occurs(c_protected, SPAN_OPEN) /\ Occurs(c_protected, BR_MARK)
    /\ c_result = c_msgid

\* C7: when the service has put whitespace inside a placeholder marker, before
\* or after the placeholder, restore_text still removes the marker: no
\* protective span is left in the restored text.
C7_PaddedMarkerRemoved ==
    (c_op = "restored" /\ c_service \in {"pad_left", "pad_right", "pad_both"}
        /\ IsPlain(c_msgid)) =>
        ~Occurs(c_result, SPAN_OPEN) /\ ~Occurs(c_result, SPAN_CLOSE)

\* the newline fix-up applied to a decoded translation
FixDecoded(msgid, decoded) ==
    LET d1 == IF startswith_nl(msgid) /\ ~startswith_nl(decoded)
              THEN <<NL>> \o decoded ELSE decoded
    IN  IF endswith_nl(msgid) /\ ~endswith_nl(d1) THEN d1 \o <<NL>> ELSE d1

\* C8: fix_translation returns the decoded translation with a newline
\* prepended (appended) exactly when msgid starts (ends) with a newline and
\* the decoded translation does not.
C8_FixAfterDecoding ==
    c_op = "fixed" => c_result = FixDecoded(c_msgid, restore_text(c_translation))

IsStartTag(t) == t.kind = "starttag"

\* the markers the encoder itself writes
IsMarker(t) ==
    /\ t.kind = "starttag"
    /\ t.tag \in {<<"s", "p", "a", "n">>, <<"b", "r">>}
    /\ t.attrs = <<Attr(<<"t","r","a","n","s","l","a","t","e">>, TRUE, <<"n", "o">>)>>

IsSourceTag(t) == IsStartTag(t) /\ ~IsMarker(t)

\* C10: the start tags of the converted text, read back, are the start tags of
\* the input: same names, same attributes in the same order, same values,
\* an attribute without a value still without one.
C10_StartTagsKeepMeaning ==
    c_op = "protected" =>
        SelectSeq(goahead(c_protected, 1), IsSourceTag)
            = SelectSeq(goahead(c_msgid, 1), IsStartTag)

====
